---- MODULE Spec2Model ----
(***************************************************************************)
(* Answer comparison and normalization of MyQuiz: the matcher              *)
(* (server/utils/wordComparison.ts), the practice route with its           *)
(* normalizer (server/routes/practice.ts) and the vocabulary routes that   *)
(* store the entries and their synonyms (server/routes/vocabulary.ts).     *)
(*                                                                         *)
(* A string is a sequence of UTF-16 code units.  The modelled code range   *)
(* is U+0000..U+017F (Basic Latin, Latin-1 Supplement, Latin Extended-A)   *)
(* and U+0300..U+036F (Combining Diacritical Marks); toLowerCase,          *)
(* normalize('NFD'), trim and the regular expressions are modelled on it   *)
(* as ECMAScript and Unicode define them.                                  *)
(***************************************************************************)
EXTENDS Integers, Sequences, FiniteSets, TLC

VARIABLES userAnswer, correctAnswer, possibleAnswers, call, ret,
          database, requests

vars == <<userAnswer, correctAnswer, possibleAnswers, call, ret,
          database, requests>>

(***************************************************************************)
(* ECMAScript string primitives                                            *)
(***************************************************************************)

\* WhiteSpace and LineTerminator code units matched by trim() and by \s.
WhiteSpace == {9, 10, 11, 12, 13, 32, 160}

\* U+0300..U+036F, the range of the class in normalizeText's regular expression.
CombiningMarks == 768..879

RECURSIVE Concat(_)
\* Flattens a sequence of strings into one string.
Concat(ss) ==
  IF ss = <<>> THEN <<>> ELSE Head(ss) \o Concat(Tail(ss))

\* String.prototype.toLowerCase on one code unit (Unicode default case
\* conversion; U+0130 lowercases to U+0069 U+0307).
LowerOf(c) ==
  IF (c >= 65 /\ c <= 90) \/ (c >= 192 /\ c <= 222 /\ c # 215) THEN <<c + 32>>
  ELSE IF c = 304 THEN <<105, 775>>
  ELSE IF c = 376 THEN <<255>>
  ELSE IF c % 2 = 0 /\ ((c >= 256 /\ c <= 311) \/ (c >= 330 /\ c <= 375)) THEN <<c + 1>>
  ELSE IF c % 2 = 1 /\ ((c >= 313 /\ c <= 327) \/ (c >= 377 /\ c <= 381)) THEN <<c + 1>>
  ELSE <<c>>

toLowerCase(text) ==
  Concat([i \in 1..Len(text) |-> LowerOf(text[i])])

\* Full canonical decomposition of the code units that have one.
CanonicalDecomposition ==
    (192 :> <<65, 768>>) @@ (193 :> <<65, 769>>) @@ (194 :> <<65, 770>>) @@ (195 :> <<65, 771>>) @@
    (196 :> <<65, 776>>) @@ (197 :> <<65, 778>>) @@ (199 :> <<67, 807>>) @@ (200 :> <<69, 768>>) @@
    (201 :> <<69, 769>>) @@ (202 :> <<69, 770>>) @@ (203 :> <<69, 776>>) @@ (204 :> <<73, 768>>) @@
    (205 :> <<73, 769>>) @@ (206 :> <<73, 770>>) @@ (207 :> <<73, 776>>) @@ (209 :> <<78, 771>>) @@
    (210 :> <<79, 768>>) @@ (211 :> <<79, 769>>) @@ (212 :> <<79, 770>>) @@ (213 :> <<79, 771>>) @@
    (214 :> <<79, 776>>) @@ (217 :> <<85, 768>>) @@ (218 :> <<85, 769>>) @@ (219 :> <<85, 770>>) @@
    (220 :> <<85, 776>>) @@ (221 :> <<89, 769>>) @@ (224 :> <<97, 768>>) @@ (225 :> <<97, 769>>) @@
    (226 :> <<97, 770>>) @@ (227 :> <<97, 771>>) @@ (228 :> <<97, 776>>) @@ (229 :> <<97, 778>>) @@
    (231 :> <<99, 807>>) @@ (232 :> <<101, 768>>) @@ (233 :> <<101, 769>>) @@ (234 :> <<101, 770>>) @@
    (235 :> <<101, 776>>) @@ (236 :> <<105, 768>>) @@ (237 :> <<105, 769>>) @@ (238 :> <<105, 770>>) @@
    (239 :> <<105, 776>>) @@ (241 :> <<110, 771>>) @@ (242 :> <<111, 768>>) @@ (243 :> <<111, 769>>) @@
    (244 :> <<111, 770>>) @@ (245 :> <<111, 771>>) @@ (246 :> <<111, 776>>) @@ (249 :> <<117, 768>>) @@
    (250 :> <<117, 769>>) @@ (251 :> <<117, 770>>) @@ (252 :> <<117, 776>>) @@ (253 :> <<121, 769>>) @@
    (255 :> <<121, 776>>) @@ (256 :> <<65, 772>>) @@ (257 :> <<97, 772>>) @@ (258 :> <<65, 774>>) @@
    (259 :> <<97, 774>>) @@ (260 :> <<65, 808>>) @@ (261 :> <<97, 808>>) @@ (262 :> <<67, 769>>) @@
    (263 :> <<99, 769>>) @@ (264 :> <<67, 770>>) @@ (265 :> <<99, 770>>) @@ (266 :> <<67, 775>>) @@
    (267 :> <<99, 775>>) @@ (268 :> <<67, 780>>) @@ (269 :> <<99, 780>>) @@ (270 :> <<68, 780>>) @@
    (271 :> <<100, 780>>) @@ (274 :> <<69, 772>>) @@ (275 :> <<101, 772>>) @@ (276 :> <<69, 774>>) @@
    (277 :> <<101, 774>>) @@ (278 :> <<69, 775>>) @@ (279 :> <<101, 775>>) @@ (280 :> <<69, 808>>) @@
    (281 :> <<101, 808>>) @@ (282 :> <<69, 780>>) @@ (283 :> <<101, 780>>) @@ (284 :> <<71, 770>>) @@
    (285 :> <<103, 770>>) @@ (286 :> <<71, 774>>) @@ (287 :> <<103, 774>>) @@ (288 :> <<71, 775>>) @@
    (289 :> <<103, 775>>) @@ (290 :> <<71, 807>>) @@ (291 :> <<103, 807>>) @@ (292 :> <<72, 770>>) @@
    (293 :> <<104, 770>>) @@ (296 :> <<73, 771>>) @@ (297 :> <<105, 771>>) @@ (298 :> <<73, 772>>) @@
    (299 :> <<105, 772>>) @@ (300 :> <<73, 774>>) @@ (301 :> <<105, 774>>) @@ (302 :> <<73, 808>>) @@
    (303 :> <<105, 808>>) @@ (304 :> <<73, 775>>) @@ (308 :> <<74, 770>>) @@ (309 :> <<106, 770>>) @@
    (310 :> <<75, 807>>) @@ (311 :> <<107, 807>>) @@ (313 :> <<76, 769>>) @@ (314 :> <<108, 769>>) @@
    (315 :> <<76, 807>>) @@ (316 :> <<108, 807>>) @@ (317 :> <<76, 780>>) @@ (318 :> <<108, 780>>) @@
    (323 :> <<78, 769>>) @@ (324 :> <<110, 769>>) @@ (325 :> <<78, 807>>) @@ (326 :> <<110, 807>>) @@
    (327 :> <<78, 780>>) @@ (328 :> <<110, 780>>) @@ (332 :> <<79, 772>>) @@ (333 :> <<111, 772>>) @@
    (334 :> <<79, 774>>) @@ (335 :> <<111, 774>>) @@ (336 :> <<79, 779>>) @@ (337 :> <<111, 779>>) @@
    (340 :> <<82, 769>>) @@ (341 :> <<114, 769>>) @@ (342 :> <<82, 807>>) @@ (343 :> <<114, 807>>) @@
    (344 :> <<82, 780>>) @@ (345 :> <<114, 780>>) @@ (346 :> <<83, 769>>) @@ (347 :> <<115, 769>>) @@
    (348 :> <<83, 770>>) @@ (349 :> <<115, 770>>) @@ (350 :> <<83, 807>>) @@ (351 :> <<115, 807>>) @@
    (352 :> <<83, 780>>) @@ (353 :> <<115, 780>>) @@ (354 :> <<84, 807>>) @@ (355 :> <<116, 807>>) @@
    (356 :> <<84, 780>>) @@ (357 :> <<116, 780>>) @@ (360 :> <<85, 771>>) @@ (361 :> <<117, 771>>) @@
    (362 :> <<85, 772>>) @@ (363 :> <<117, 772>>) @@ (364 :> <<85, 774>>) @@ (365 :> <<117, 774>>) @@
    (366 :> <<85, 778>>) @@ (367 :> <<117, 778>>) @@ (368 :> <<85, 779>>) @@ (369 :> <<117, 779>>) @@
    (370 :> <<85, 808>>) @@ (371 :> <<117, 808>>) @@ (372 :> <<87, 770>>) @@ (373 :> <<119, 770>>) @@
    (374 :> <<89, 770>>) @@ (375 :> <<121, 770>>) @@ (376 :> <<89, 776>>) @@ (377 :> <<90, 769>>) @@
    (378 :> <<122, 769>>) @@ (379 :> <<90, 775>>) @@ (380 :> <<122, 775>>) @@ (381 :> <<90, 780>>) @@
    (382 :> <<122, 780>>) @@ (832 :> <<768>>) @@ (833 :> <<769>>) @@ (835 :> <<787>>) @@
    (836 :> <<776, 769>>)

Decomposable == DOMAIN CanonicalDecomposition

\* Canonical_Combining_Class of a code unit (0 for starters).
CombiningClass(c) ==
  IF c \notin CombiningMarks THEN 0
  ELSE IF c \in 820..824 THEN 1
  ELSE IF c \in {801, 802, 807, 808} THEN 202
  ELSE IF c = 795 THEN 216
  ELSE IF c \in (790..793) \cup (796..800) \cup (803..806) \cup (809..819)
              \cup (825..828) \cup (839..841) \cup {845, 846}
              \cup (851..854) \cup {857, 858} THEN 220
  ELSE IF c \in {789, 794, 856} THEN 232
  ELSE IF c \in {860, 863, 866} THEN 233
  ELSE IF c \in {861, 862, 864, 865} THEN 234
  ELSE IF c = 837 THEN 240
  ELSE IF c \in {847} THEN 0
  ELSE 230

RECURSIVE CanonicalInsert(_, _)
\* Canonical ordering: a non-starter moves left past every preceding
\* non-starter of a strictly higher combining class.
CanonicalInsert(out, c) ==
  IF out = <<>> \/ CombiningClass(c) = 0
     \/ CombiningClass(out[Len(out)]) <= CombiningClass(c)
  THEN Append(out, c)
  ELSE Append(CanonicalInsert(SubSeq(out, 1, Len(out) - 1), c), out[Len(out)])

RECURSIVE CanonicalOrder(_, _)
CanonicalOrder(out, rest) ==
  IF rest = <<>> THEN out
  ELSE CanonicalOrder(CanonicalInsert(out, Head(rest)), Tail(rest))

\* String.prototype.normalize('NFD').
normalizeNFD(text) ==
  CanonicalOrder(<<>>,
    Concat([i \in 1..Len(text) |->
              IF text[i] \in Decomposable THEN CanonicalDecomposition[text[i]]
              ELSE <<text[i]>>]))

\* String.prototype.replace(/[class]/g, by): every code unit of the class is
\* replaced by the string by.
replaceAll(text, class, by) ==
  Concat([i \in 1..Len(text) |-> IF text[i] \in class THEN by ELSE <<text[i]>>])

RECURSIVE trimStart(_)
trimStart(text) ==
  IF text # <<>> /\ Head(text) \in WhiteSpace THEN trimStart(Tail(text)) ELSE text

RECURSIVE trimEnd(_)
trimEnd(text) ==
  IF text # <<>> /\ text[Len(text)] \in WhiteSpace
  THEN trimEnd(SubSeq(text, 1, Len(text) - 1)) ELSE text

\* String.prototype.trim.
trim(text) == trimEnd(trimStart(text))

RECURSIVE splitFrom(_, _, _, _)
\* String.prototype.split(/\s+/): the pieces between maximal runs of
\* whitespace, the empty pieces before a leading and after a trailing run
\* included; the empty string splits into one empty piece.
splitFrom(text, i, piece, pieces) ==
  IF i > Len(text) THEN Append(pieces, piece)
  ELSE IF text[i] \in WhiteSpace
       THEN IF i < Len(text) /\ text[i + 1] \in WhiteSpace
            THEN splitFrom(text, i + 1, piece, pieces)
            ELSE splitFrom(text, i + 1, <<>>, Append(pieces, piece))
       ELSE splitFrom(text, i + 1, Append(piece, text[i]), pieces)

splitOnWhitespace(text) == splitFrom(text, 1, <<>>, <<>>)

(***************************************************************************)
(* server/utils/wordComparison.ts                                          *)
(***************************************************************************)

\* normalizeText without the trim.
normalizeTextNoTrim(text) ==
  replaceAll(normalizeNFD(toLowerCase(text)), CombiningMarks, <<>>)

\* normalizeText with the trim moved before the stripping of the marks.
normalizeTextTrimFirst(text) ==
  replaceAll(normalizeNFD(trim(toLowerCase(text))), CombiningMarks, <<>>)

normalizeText(text) ==
  trim(replaceAll(normalizeNFD(toLowerCase(text)), CombiningMarks, <<>>))

\* splitIntoWords without the filter of the empty strings.
splitIntoWordsNoFilter(text) ==
  splitOnWhitespace(trim(text))

splitIntoWords(text) ==
  SelectSeq(splitOnWhitespace(trim(text)), LAMBDA word : Len(word) > 0)

\* A value that may be undefined: <<>> is undefined, <<v>> is the value v.
Undefined == <<>>

Defined(v) == <<v>>

\* wordDifference comparing the words as typed, without normalizeText.
wordDifferenceRaw(userWords, correctWords, i) ==
  LET userWord == IF i + 1 <= Len(userWords) THEN userWords[i + 1] ELSE <<>>
      correctWord == IF i + 1 <= Len(correctWords) THEN correctWords[i + 1] ELSE <<>>
      isCorrect == userWord = correctWord
  IN IF userWord # <<>>
     THEN << [word |-> userWord,
              isCorrect |-> isCorrect,
              correctWord |-> IF isCorrect THEN Undefined ELSE Defined(correctWord),
              position |-> i] >>
     ELSE <<>>

\* wordDifference looking for the user's word anywhere in the candidate.
wordDifferenceAnywhere(userWords, correctWords, i) ==
  LET userWord == IF i + 1 <= Len(userWords) THEN userWords[i + 1] ELSE <<>>
      correctWord == IF i + 1 <= Len(correctWords) THEN correctWords[i + 1] ELSE <<>>
      isCorrect == \E k \in 1..Len(correctWords) :
                     normalizeText(userWord) = normalizeText(correctWords[k])
  IN IF userWord # <<>>
     THEN << [word |-> userWord,
              isCorrect |-> isCorrect,
              correctWord |-> IF isCorrect THEN Undefined ELSE Defined(correctWord),
              position |-> i] >>
     ELSE <<>>

\* wordDifference without the test of the user's word: a position the user
\* left empty is pushed too.
wordDifferenceAlways(userWords, correctWords, i) ==
  LET userWord == IF i + 1 <= Len(userWords) THEN userWords[i + 1] ELSE <<>>
      correctWord == IF i + 1 <= Len(correctWords) THEN correctWords[i + 1] ELSE <<>>
      isCorrect == normalizeText(userWord) = normalizeText(correctWord)
  IN << [word |-> userWord,
         isCorrect |-> isCorrect,
         correctWord |-> IF isCorrect THEN Undefined ELSE Defined(correctWord),
         position |-> i] >>

\* One iteration of the loop of compareAnswers, for position i (0-based):
\* the WordDifference pushed, if any.
wordDifference(userWords, correctWords, i) ==
  LET userWord == IF i + 1 <= Len(userWords) THEN userWords[i + 1] ELSE <<>>
      correctWord == IF i + 1 <= Len(correctWords) THEN correctWords[i + 1] ELSE <<>>
      isCorrect == normalizeText(userWord) = normalizeText(correctWord)
  IN IF userWord # <<>>
     THEN << [word |-> userWord,
              isCorrect |-> isCorrect,
              correctWord |-> IF isCorrect THEN Undefined ELSE Defined(correctWord),
              position |-> i] >>
     ELSE <<>>

compareAnswers(user, correct) ==
  LET userWords == splitIntoWords(user)
      correctWords == splitIntoWords(correct)
      maxLength == IF Len(userWords) >= Len(correctWords)
                   THEN Len(userWords) ELSE Len(correctWords)
  IN Concat([k \in 1..maxLength |-> wordDifference(userWords, correctWords, k - 1)])

\* areAnswersEquivalent that normalizes the user's answer only.
areAnswersEquivalentRaw(user, correct) ==
  normalizeText(user) = correct

areAnswersEquivalent(user, correct) ==
  normalizeText(user) = normalizeText(correct)

\* The number of entries of a diff with isCorrect = false.
incorrectCount(differences) ==
  Cardinality({k \in 1..Len(differences) : ~differences[k].isCorrect})

RECURSIVE closestMatchLast(_, _, _, _)
\* closestMatch with <= for <: a later candidate with an equal count wins.
closestMatchLast(user, answers, i, best) ==
  IF i > Len(answers) THEN best
  ELSE LET differences == compareAnswers(user, answers[i])
           count == incorrectCount(differences)
       IN closestMatchLast(user, answers, i + 1,
            IF best.minDifferences = Undefined \/ count <= best.minDifferences[1]
            THEN [bestMatch |-> answers[i],
                  minDifferences |-> Defined(count),
                  bestWordDifferences |-> differences]
            ELSE best)

RECURSIVE closestMatchStale(_, _, _, _)
\* closestMatch that leaves bestWordDifferences as it was.
closestMatchStale(user, answers, i, best) ==
  IF i > Len(answers) THEN best
  ELSE LET differences == compareAnswers(user, answers[i])
           count == incorrectCount(differences)
       IN closestMatchStale(user, answers, i + 1,
            IF best.minDifferences = Undefined \/ count < best.minDifferences[1]
            THEN [bestMatch |-> answers[i],
                  minDifferences |-> Defined(count),
                  bestWordDifferences |-> best.bestWordDifferences]
            ELSE best)

RECURSIVE closestMatch(_, _, _, _)
\* The second loop of compareWithMultipleAnswers from candidate i on; best
\* holds bestMatch, minDifferences (Undefined for Infinity) and
\* bestWordDifferences.
closestMatch(user, answers, i, best) ==
  IF i > Len(answers) THEN best
  ELSE LET differences == compareAnswers(user, answers[i])
           count == incorrectCount(differences)
       IN closestMatch(user, answers, i + 1,
            IF best.minDifferences = Undefined \/ count < best.minDifferences[1]
            THEN [bestMatch |-> answers[i],
                  minDifferences |-> Defined(count),
                  bestWordDifferences |-> differences]
            ELSE best)

RECURSIVE exactMatchLast(_, _, _)
\* exactMatch that keeps looking after a match: the last equivalent answer.
exactMatchLast(user, answers, i) ==
  IF i > Len(answers) THEN Undefined
  ELSE LET later == exactMatchLast(user, answers, i + 1)
       IN IF later # Undefined THEN later
          ELSE IF areAnswersEquivalent(user, answers[i]) THEN Defined(answers[i])
          ELSE Undefined

\* exactMatch that tries candidate i only.
exactMatchFirstOnly(user, answers, i) ==
  IF i <= Len(answers) /\ areAnswersEquivalent(user, answers[i])
  THEN Defined(answers[i]) ELSE Undefined

RECURSIVE exactMatch(_, _, _)
\* The first loop of compareWithMultipleAnswers from candidate i on: the
\* first answer equivalent to the user's, Undefined when the loop ends
\* without one.
exactMatch(user, answers, i) ==
  IF i > Len(answers) THEN Undefined
  ELSE IF areAnswersEquivalent(user, answers[i]) THEN Defined(answers[i])
  ELSE exactMatch(user, answers, i + 1)

compareWithMultipleAnswers(user, answers) ==
  LET exact == exactMatch(user, answers, 1)
  IN IF exact # Undefined
     THEN [isCorrect |-> TRUE,
           bestMatch |-> exact[1],
           wordDifferences |-> <<>>,
           matchedAnswer |-> exact]
     ELSE LET best == closestMatch(user, answers, 1,
                        [bestMatch |-> IF answers # <<>> /\ answers[1] # <<>>
                                       THEN answers[1] ELSE <<>>,
                         minDifferences |-> Undefined,
                         bestWordDifferences |-> <<>>])
          IN [isCorrect |-> FALSE,
              bestMatch |-> best.bestMatch,
              wordDifferences |-> best.bestWordDifferences,
              matchedAnswer |-> Undefined]

\* The values a JSON body can hold besides strings, and undefined for a
\* field the body does not have; each is written as a sequence of one
\* negative number, which no string holds.
JSUndefined == <<-1>>

JSNull == <<-2>>

\* The number 7.
JSNumber == <<-3>>

\* The array [].
JSArray == <<-4>>

\* typeof value === 'string': a sequence of code units.
IsString(value) == \A k \in 1..Len(value) : value[k] >= 0

\* normalizeText raising a TypeError for the empty string too.
normalizeTextThrowsOnEmpty(text) == ~IsString(text) \/ text = <<>>

\* normalizeText raises a TypeError: text.toLowerCase is not a function of a
\* number or an array, and null and undefined have no properties.
normalizeTextThrows(text) == ~IsString(text)

\* areAnswersEquivalent raises what one of its two calls of normalizeText
\* raises.
areAnswersEquivalentThrows(user, correct) ==
  normalizeTextThrows(user) \/ normalizeTextThrows(correct)

RECURSIVE exactMatchThrows(_, _, _)
\* The first loop of compareWithMultipleAnswers, from the candidate of index
\* i (1-based), ends by an exception: a call of areAnswersEquivalent raises
\* it before a candidate is found equivalent.
exactMatchThrows(user, answers, i) ==
  IF i > Len(answers) THEN FALSE
  ELSE IF areAnswersEquivalentThrows(user, answers[i]) THEN TRUE
  ELSE IF areAnswersEquivalent(user, answers[i]) THEN FALSE
  ELSE exactMatchThrows(user, answers, i + 1)

\* compareWithMultipleAnswers raising for a malformed answer before it looks
\* at the candidates.
compareWithMultipleAnswersThrowsEarly(user, answers) == ~IsString(user)

\* compareWithMultipleAnswers ends by an exception. The second loop runs
\* only when the first has called normalizeText on the answer and on every
\* candidate without an exception, and calls no other method on a value
\* that is not one of them or a string made from them.
compareWithMultipleAnswersThrows(user, answers) ==
  exactMatchThrows(user, answers, 1)

(***************************************************************************)
(* server/routes/practice.ts                                               *)
(***************************************************************************)

\* The classes of the substitution table, in the order the replacements are
\* applied, each with the letter it is replaced by.
SubstitutionTable ==
  << <<{382, 381}, 122>>,
     <<{263, 269, 262, 268}, 99>>,
     <<{353, 352}, 115>>,
     <<{328, 327}, 110>>,
     <<{271, 270}, 100>>,
     <<{357, 356}, 116>>,
     <<{318, 317, 322, 321}, 108>>,
     <<{345, 344}, 114>>,
     <<{225, 228, 193, 196}, 97>>,
     <<{233, 283, 201, 282}, 101>>,
     <<{237, 205}, 105>>,
     <<{243, 244, 211, 212}, 111>>,
     <<{250, 367, 252, 218, 366, 220}, 117>>,
     <<{253, 221}, 121>> >>

RECURSIVE substitute(_, _)
substitute(text, k) ==
  IF k > Len(SubstitutionTable) THEN text
  ELSE substitute(replaceAll(text, SubstitutionTable[k][1], <<SubstitutionTable[k][2]>>),
                  k + 1)

\* practiceNormalizeText without the lower-casing.
practiceNormalizeTextNoLower(text) ==
  substitute(trim(text), 1)

practiceNormalizeText(text) ==
  substitute(trim(toLowerCase(text)), 1)

(***************************************************************************)
(* The database and the routes: server/database, server/routes             *)
(*                                                                         *)
(* A table is the set of its rows.  The language of the translation is    *)
(* left out, and no statement fails.  The foreign keys of SQLite are not switched    *)
(* on, so deleting an entry leaves its synonyms; ids given by              *)
(* AUTOINCREMENT are not given again.                                      *)
(***************************************************************************)

\* The state of the database: the two tables and the last id of vocabulary.
EmptyDatabase == [vocabulary |-> {}, synonyms |-> {}, lastID |-> 0]

RECURSIVE splitBy(_, _, _, _, _)
\* text.split(separator) for a separator of one code unit, from index i with
\* the current piece and the pieces found.
splitBy(text, separator, i, piece, pieces) ==
  IF i > Len(text) THEN Append(pieces, piece)
  ELSE IF text[i] = separator
       THEN splitBy(text, separator, i + 1, <<>>, Append(pieces, piece))
       ELSE splitBy(text, separator, i + 1, Append(piece, text[i]), pieces)

split(text, separator) == splitBy(text, separator, 1, <<>>, <<>>)

RECURSIVE joinWith(_, _)
\* The strings of the list with the separator between them.
joinWith(list, separator) ==
  IF list = <<>> THEN <<>>
  ELSE IF Len(list) = 1 THEN list[1]
  ELSE list[1] \o separator \o joinWith(Tail(list), separator)

\* The orders a SELECT without ORDER BY can return the rows in.
Orderings(rows) ==
  {order \in [1..Cardinality(rows) -> rows] :
     \A i, j \in 1..Cardinality(rows) : order[i] = order[j] => i = j}

\* The synonyms stored for the entry.
storedSynonyms(table, vocabularyId) ==
  {s.synonym : s \in {t \in table : t.vocabulary_id = vocabularyId}}

\* uniqueSynonyms of saveSynonymsForVocabulary: the trimmed forms of the
\* strings of the list that are not blank.
uniqueSynonyms(list) ==
  {trim(list[k]) : k \in {n \in 1..Len(list) : trim(list[n]) # <<>>}}

\* The table synonyms after saveSynonymsForVocabulary(vocabularyId, list):
\* untouched for an empty list and for a list of blank strings, else the
\* rows of the entry are deleted and one row per unique synonym inserted.
saveSynonymsForVocabulary(table, vocabularyId, list) ==
  IF list = <<>> THEN table
  ELSE IF uniqueSynonyms(list) = {} THEN table
  ELSE {s \in table : s.vocabulary_id # vocabularyId}
         \cup {[vocabulary_id |-> vocabularyId, synonym |-> u] :
                 u \in uniqueSynonyms(list)}

\* !value for a string of a request body: undefined, null and '' are falsy.
IsFalsy(value) == value \in {<<>>, JSUndefined, JSNull}

\* defaultLanguage of POST /vocabulary: language || 'serbian'.
defaultLanguage(body) ==
  IF body.language = Undefined \/ body.language[1] = "" THEN "serbian"
  ELSE body.language[1]

\* POST /vocabulary by userId: the database after the handler and the status
\* of the response.  body.synonyms is Undefined or Defined(list), and
\* body.language Undefined or Defined(name).
createVocabulary(db, userId, body) ==
  IF IsFalsy(body.word) \/ IsFalsy(body.translation)
  THEN [db |-> db, status |-> 400]
  ELSE IF \E row \in db.vocabulary :
            /\ row.word = trim(body.word)
            /\ row.language = defaultLanguage(body)
            /\ row.user_id = userId
       THEN [db |-> db, status |-> 409]
       ELSE LET vocabularyId == db.lastID + 1
                row == [id |-> vocabularyId,
                        word |-> trim(body.word),
                        translation |-> trim(body.translation),
                        language |-> defaultLanguage(body),
                        learned |-> 0,
                        mastered |-> 0,
                        correct_attempts |-> 0,
                        wrong_attempts |-> 0,
                        user_id |-> userId]
            IN [db |-> [vocabulary |-> db.vocabulary \cup {row},
                        synonyms |->
                          IF body.synonyms # Undefined /\ body.synonyms[1] # <<>>
                          THEN saveSynonymsForVocabulary(db.synonyms, vocabularyId,
                                                         body.synonyms[1])
                          ELSE db.synonyms,
                        lastID |-> vocabularyId],
                status |-> 201]

\* The row after UPDATE vocabulary SET ... for the fields the body has; each
\* field of updates is Undefined or Defined(value).
updatedRow(row, updates) ==
  [row EXCEPT
     !.word = IF updates.word # Undefined THEN trim(updates.word[1]) ELSE @,
     !.translation = IF updates.translation # Undefined
                     THEN trim(updates.translation[1]) ELSE @,
     !.learned = IF updates.learned # Undefined
                 THEN (IF updates.learned[1] THEN 1 ELSE 0) ELSE @,
     !.mastered = IF updates.mastered # Undefined
                  THEN (IF updates.mastered[1] THEN 1 ELSE 0) ELSE @]

\* PUT /vocabulary/:id by userId: the database after the handler and the
\* status of the response.  The synonyms are saved for the id of the
\* request when the update of the vocabulary fields changed a row or when
\* the body has no vocabulary field.
updateVocabulary(db, userId, id, updates) ==
  LET hasFields == \E f \in {"word", "translation", "learned", "mastered"} :
                     updates[f] # Undefined
      hasSynonymUpdates == updates.synonyms # Undefined
      owned == {row \in db.vocabulary : row.id = id /\ row.user_id = userId}
      saved == IF hasSynonymUpdates
               THEN saveSynonymsForVocabulary(db.synonyms, id, updates.synonyms[1])
               ELSE db.synonyms
  IN IF ~hasFields /\ ~hasSynonymUpdates THEN [db |-> db, status |-> 400]
     ELSE IF hasFields /\ owned = {} THEN [db |-> db, status |-> 404]
     ELSE [db |-> [vocabulary |->
                     IF hasFields
                     THEN {IF row \in owned THEN updatedRow(row, updates) ELSE row :
                             row \in db.vocabulary}
                     ELSE db.vocabulary,
                   synonyms |-> saved,
                   lastID |-> db.lastID],
           status |-> IF owned = {} THEN 404 ELSE 200]

\* DELETE /vocabulary/:id by userId.
deleteVocabulary(db, userId, id) ==
  LET owned == {row \in db.vocabulary : row.id = id /\ row.user_id = userId}
  IN [db |-> [db EXCEPT !.vocabulary = @ \ owned],
      status |-> IF owned = {} THEN 404 ELSE 204]

\* The values GROUP_CONCAT(s.synonym) can have for the entry: NULL when it
\* has no synonym, else its synonyms joined by commas, in an order SQLite
\* does not define.
groupConcat(db, vocabularyId) ==
  IF storedSynonyms(db.synonyms, vocabularyId) = {} THEN {Undefined}
  ELSE {Defined(joinWith(order, <<44>>)) :
          order \in Orderings(storedSynonyms(db.synonyms, vocabularyId))}

\* getAllAnswersForVocabulary(vocabularyId) when GROUP_CONCAT gives concat:
\* no answer when the entry is not there, else the translation followed by
\* the non-blank pieces of concat between its commas.
getAllAnswersForVocabulary(db, vocabularyId, concat) ==
  LET rows == {row \in db.vocabulary : row.id = vocabularyId}
  IN IF rows = {} THEN <<>>
     ELSE <<(CHOOSE row \in rows : TRUE).translation>>
            \o (IF concat # Undefined /\ concat[1] # <<>>
                THEN SelectSeq(split(concat[1], 44), LAMBDA s : trim(s) # <<>>)
                ELSE <<>>)

\* possibleAnswers of POST /practice/check with the original word accepted
\* next to the translation in the translation-word mode.
possibleAnswersForEitherWay(practiceMode, row, allTranslations) ==
  IF practiceMode = "word-translation" THEN allTranslations
  ELSE <<row.word, row.translation>>

\* possibleAnswers of POST /practice/check: the answers of the entry in the
\* word-translation mode, the word alone in the translation-word mode.
possibleAnswersFor(practiceMode, row, allTranslations) ==
  IF practiceMode = "word-translation" THEN allTranslations
  ELSE <<row.word>>

\* expectedAnswer of POST /practice/check.
expectedAnswerFor(practiceMode, row) ==
  IF practiceMode = "word-translation" THEN row.translation ELSE row.word

\* shouldShowOriginal for every correct answer.
shouldShowOriginalAlways(comparisonResult, userTranslation) ==
  /\ comparisonResult.isCorrect
  /\ comparisonResult.matchedAnswer # Undefined
  /\ comparisonResult.matchedAnswer[1] # <<>>

\* shouldShowOriginal of POST /practice/check, with the normalizer of the
\* route; the conjuncts are evaluated in this order and normalizeText is
\* called on the user's input only after a match.
shouldShowOriginal(comparisonResult, userTranslation) ==
  /\ comparisonResult.isCorrect
  /\ comparisonResult.matchedAnswer # Undefined
  /\ comparisonResult.matchedAnswer[1] # <<>>
  /\ practiceNormalizeText(comparisonResult.matchedAnswer[1])
       # comparisonResult.matchedAnswer[1]
  /\ practiceNormalizeText(userTranslation) # comparisonResult.matchedAnswer[1]

\* The PracticeResult of POST /practice/check; a field the object does not
\* have is Undefined.
practiceResult(comparisonResult, expectedAnswer, userTranslation, answers) ==
  [correct |-> comparisonResult.isCorrect,
   expectedTranslation |-> expectedAnswer,
   userTranslation |-> userTranslation,
   originalAnswer |->
     IF shouldShowOriginal(comparisonResult, userTranslation)
     THEN comparisonResult.matchedAnswer ELSE Undefined,
   synonyms |->
     IF ~comparisonResult.isCorrect
     THEN Defined(SelectSeq(answers, LAMBDA answer : answer # expectedAnswer))
     ELSE Undefined,
   wordDifferences |->
     IF ~comparisonResult.isCorrect /\ comparisonResult.wordDifferences # <<>>
     THEN Defined(comparisonResult.wordDifferences) ELSE Undefined]

\* The UPDATE of POST /practice/check writing the counter of a first answer
\* instead of adding to the stored one.
attemptCountedAsFirst(rows, id, userId, isCorrect) ==
  {IF row.id = id /\ row.user_id = userId
   THEN (IF isCorrect
         THEN [row EXCEPT !.learned = 1, !.correct_attempts = 1]
         ELSE [row EXCEPT !.wrong_attempts = 1])
   ELSE row : row \in rows}

\* The UPDATE of POST /practice/check with a wrong answer taking the entry
\* back to unlearned.
attemptCountedUnlearning(rows, id, userId, isCorrect) ==
  {IF row.id = id /\ row.user_id = userId
   THEN (IF isCorrect
         THEN [row EXCEPT !.learned = 1, !.correct_attempts = @ + 1]
         ELSE [row EXCEPT !.learned = 0, !.wrong_attempts = @ + 1])
   ELSE row : row \in rows}

\* The rows of vocabulary after the UPDATE of POST /practice/check.
attemptCounted(rows, id, userId, isCorrect) ==
  {IF row.id = id /\ row.user_id = userId
   THEN (IF isCorrect
         THEN [row EXCEPT !.learned = 1, !.correct_attempts = @ + 1]
         ELSE [row EXCEPT !.wrong_attempts = @ + 1])
   ELSE row : row \in rows}

\* The language filter of GET /practice/word and POST /practice/reset:
\* AND language = ? when the query has a language other than 'all'.
languageFilter(language, row) ==
  (language # Undefined /\ language[1] # "" /\ language[1] # "all")
    => row.language = language[1]

\* The SELECT of GET /practice/word without learned = 0.
wordsForPracticeLearnedToo(rows, userId, language) ==
  {row \in rows : /\ row.mastered = 0
                  /\ row.user_id = userId
                  /\ languageFilter(language, row)}

\* The rows the SELECT of GET /practice/word chooses from; ORDER BY RANDOM()
\* LIMIT 1 returns any one of them.
wordsForPractice(rows, userId, language) ==
  {row \in rows : /\ row.learned = 0
                  /\ row.mastered = 0
                  /\ row.user_id = userId
                  /\ languageFilter(language, row)}

\* The row as the SELECT of GET /practice/word returns it.
practiceRow(row) ==
  [id |-> row.id, word |-> row.word, translation |-> row.translation,
   language |-> row.language]

\* The PracticeSession of GET /practice/word for the row selected and the
\* answers of the entry read after it.
practiceSession(row, mode, allAnswers) ==
  [id |-> row.id, word |-> row.word, translation |-> row.translation,
   language |-> row.language, mode |-> mode,
   synonyms |-> SelectSeq(allAnswers, LAMBDA answer : answer # row.translation)]

\* The UPDATE of POST /practice/reset without mastered = 0.
rowsToResetMasteredToo(rows, userId, language) ==
  {row \in rows : row.user_id = userId /\ languageFilter(language, row)}

\* The rows the UPDATE of POST /practice/reset applies to.
rowsToReset(rows, userId, language) ==
  {row \in rows : /\ row.user_id = userId
                  /\ row.mastered = 0
                  /\ languageFilter(language, row)}

\* The UPDATE of POST /practice/reset without user_id = ?.
resetPracticeOfEveryUser(rows, userId, language) ==
  {IF row.mastered = 0 /\ languageFilter(language, row)
   THEN [row EXCEPT !.learned = 0]
   ELSE row : row \in rows}

\* The rows of vocabulary after the UPDATE of POST /practice/reset.
resetPractice(rows, userId, language) ==
  {IF row \in rowsToReset(rows, userId, language)
   THEN [row EXCEPT !.learned = 0]
   ELSE row : row \in rows}

(***************************************************************************)
(* Inputs                                                                  *)
(***************************************************************************)

\* The longest text enumerated over an alphabet.
MaxLen == 3

\* The most words of an enumerated answer and the most candidates of an
\* enumerated candidate list.
MaxWords == 2

MaxAnswers == 2

\* All strings over alphabet of at most n code units.
BoundedStrings(alphabet, n) ==
  UNION {[1..k -> alphabet] : k \in 0..n}

RECURSIVE joinWords(_)
\* The words separated by single spaces.
joinWords(words) ==
  IF words = <<>> THEN <<>>
  ELSE IF Len(words) = 1 THEN words[1]
  ELSE words[1] \o <<32>> \o joinWords(Tail(words))

\* The strings of the scenarios of the specification's testable properties.
TestVectors == {
    <<381, 73, 82>>,  \* "\u017dIR"
    <<122, 105, 114>>,  \* "zir"
    <<269, 97, 106>>,  \* "\u010daj"
    <<99, 97, 106>>,  \* "caj"
    <<104, 101, 108, 108, 111>>,  \* "hello"
    <<119, 111, 114, 108, 100>>,  \* "world"
    <<32, 32, 104, 101, 108, 108, 111, 32, 32, 119, 111, 114, 108, 100, 32>>,  \* "  hello  world "
    <<104, 101, 108, 108, 111, 32, 119, 111, 114, 108, 100>>,  \* "hello world"
    <<107, 117, 263, 97>>,  \* "ku\u0107a"
    <<75, 117, 263, 97>>,  \* "Ku\u0107a"
    <<100, 111, 109>>,  \* "dom"
    <<104, 111, 117, 115, 101>>,  \* "house"
    <<103, 111, 111, 100, 32, 109, 111, 114, 110, 105, 110, 103>>,  \* "good morning"
    <<103, 111, 111, 100, 32, 101, 118, 101, 110, 105, 110, 103>>,  \* "good evening"
    <<103, 111, 111, 100, 32, 110, 105, 103, 104, 116>>,  \* "good night"
    <<100, 111, 98, 97, 114, 32, 100, 97, 110>>,  \* "dobar dan"
    <<100, 111, 98, 97, 114, 32, 118, 101, 99, 101>>,  \* "dobar vece"
    <<104, 105>>,  \* "hi"
    <<72, 105>>,  \* "Hi"
    <<103, 111, 111, 100>>,  \* "good"
    <<110, 105, 99, 101>>,  \* "nice"
    <<102, 105, 110, 101>>,  \* "fine"
    <<98, 97, 100>>  \* "bad"
  }

\* The letters of the specification's diacritic table: lowercase form,
\* uppercase form and base letter.
DiacriticTable == {
    <<382, 381, 122>>,  \* \u017e, \u017d -> z
    <<263, 262, 99>>,  \* \u0107, \u0106 -> c
    <<269, 268, 99>>,  \* \u010d, \u010c -> c
    <<353, 352, 115>>,  \* \u0161, \u0160 -> s
    <<328, 327, 110>>,  \* \u0148, \u0147 -> n
    <<271, 270, 100>>,  \* \u010f, \u010e -> d
    <<357, 356, 116>>,  \* \u0165, \u0164 -> t
    <<318, 317, 108>>,  \* \u013e, \u013d -> l
    <<322, 321, 108>>,  \* \u0142, \u0141 -> l
    <<345, 344, 114>>,  \* \u0159, \u0158 -> r
    <<225, 193, 97>>,  \* \u00e1, \u00c1 -> a
    <<228, 196, 97>>,  \* \u00e4, \u00c4 -> a
    <<233, 201, 101>>,  \* \u00e9, \u00c9 -> e
    <<283, 282, 101>>,  \* \u011b, \u011a -> e
    <<237, 205, 105>>,  \* \u00ed, \u00cd -> i
    <<243, 211, 111>>,  \* \u00f3, \u00d3 -> o
    <<244, 212, 111>>,  \* \u00f4, \u00d4 -> o
    <<250, 218, 117>>,  \* \u00fa, \u00da -> u
    <<367, 366, 117>>,  \* \u016f, \u016e -> u
    <<252, 220, 117>>,  \* \u00fc, \u00dc -> u
    <<253, 221, 121>>  \* \u00fd, \u00dd -> y
  }

\* The pairs of strings the testable properties compare.
TestPairs == {
    <<<<381, 73, 82>>, <<122, 105, 114>>>>,  \* "\u017dIR", "zir"
    <<<<269, 97, 106>>, <<99, 97, 106>>>>,  \* "\u010daj", "caj"
    <<<<104, 101, 108, 108, 111>>, <<119, 111, 114, 108, 100>>>>,  \* "hello", "world"
    <<<<32, 32, 104, 101, 108, 108, 111, 32, 32, 119, 111, 114, 108, 100, 32>>, <<104, 101, 108, 108, 111, 32, 119, 111, 114, 108, 100>>>>,  \* "  hello  world ", "hello world"
    <<<<100, 111, 98, 97, 114, 32, 100, 97, 110>>, <<100, 111, 98, 97, 114, 32, 118, 101, 99, 101>>>>  \* "dobar dan", "dobar vece"
  }

\* The matching scenarios of the testable properties: user answer and
\* candidate list.
TestScenarios == {
    <<<<75, 117, 263, 97>>,
      <<<<107, 117, 263, 97>>, <<100, 111, 109>>, <<104, 111, 117, 115, 101>>>>>>,  \* "Ku\u0107a" against "ku\u0107a", "dom", "house"
    <<<<103, 111, 111, 100, 32, 110, 105, 103, 104, 116>>,
      <<<<103, 111, 111, 100, 32, 109, 111, 114, 110, 105, 110, 103>>, <<103, 111, 111, 100, 32, 101, 118, 101, 110, 105, 110, 103>>>>>>,  \* "good night" against "good morning", "good evening"
    <<<<72, 105>>,
      <<<<104, 101, 108, 108, 111>>, <<104, 105>>>>>>,  \* "Hi" against "hello", "hi"
    <<<<98, 97, 100>>,
      <<<<103, 111, 111, 100>>, <<110, 105, 99, 101>>, <<102, 105, 110, 101>>>>>>,  \* "bad" against "good", "nice", "fine"
    <<<<99, 97, 106>>,
      <<<<269, 97, 106>>>>>>  \* "caj" against "\u010daj"
  }

\* Candidate lists with several candidates equivalent to the user answer:
\* "a" against "A", "a"; "a" against " a", "A", "b"; "A" against "b", "a", "A".
OrderScenarios == {
    <<<<97>>, << <<65>>, <<97>> >> >>,
    <<<<97>>, << <<32, 97>>, <<65>>, <<98>> >> >>,
    <<<<65>>, << <<98>>, <<97>>, <<65>> >> >>
  }

\* a, A, z with caron, Z with caron, l with stroke, I with dot above,
\* combining caron, space, tab, no-break space.
TextAlphabet == {97, 65, 382, 381, 322, 304, 780, 32, 9, 160}

TextInputs ==
  BoundedStrings(TextAlphabet, MaxLen) \cup TestVectors
    \cup {<<row[1]>> : row \in DiacriticTable} \cup {<<row[2]>> : row \in DiacriticTable}

\* c, C with caron, space, tab.
PairAlphabet == {99, 268, 32, 9}

\* c, the combining caron, space.
MarkAlphabet == {99, 780, 32}

\* Candidates of no word and of one word.
ShortCandidates == {<<>>, <<99>>}

\* The words a, b, c.
OrderWords == {<<97>>, <<98>>, <<99>>}

\* Answers and candidates of the same number of these words, two at least.
OrderPairs ==
  UNION {{<<joinWords(user), joinWords(correct)>> :
            user \in [1..k -> OrderWords], correct \in [1..k -> OrderWords]} :
         k \in 2..MaxWords}

PairInputs ==
  (BoundedStrings(PairAlphabet, MaxLen) \X BoundedStrings(PairAlphabet, MaxLen))
    \cup (BoundedStrings(MarkAlphabet, MaxLen) \X ShortCandidates)
    \cup OrderPairs
    \cup TestPairs
    \cup {<<<<row[1]>>, <<row[3]>>>> : row \in DiacriticTable}
    \cup {<<<<row[2]>>, <<row[3]>>>> : row \in DiacriticTable}

\* The words of the enumerated user answers: A, b.
UserWords == {<<65>>, <<98>>}

\* The words of the enumerated candidates: a, b.
AnswerWords == {<<97>>, <<98>>}

\* The texts of at most MaxWords words of a set, single-spaced.
Phrases(words) ==
  {joinWords(ws) : ws \in UNION {[1..k -> words] : k \in 0..MaxWords}}

\* Answers that are not strings, with no candidate and with the candidate a.
MalformedScenarios == {JSNull, JSNumber, JSArray} \X {<<>>, <<<<97>>>>}

\* Answers that separate their words by two spaces and by a tab: "A  b"
\* against "a b", and "a\tb" against "b" and "a b".
SpacedScenarios == {
    <<<<65, 32, 32, 98>>, <<<<97, 32, 98>>>>>>,
    <<<<97, 9, 98>>, <<<<98>>, <<97, 32, 98>>>>>>
  }

MatchInputs ==
  (Phrases(UserWords)
     \X UNION {[1..n -> Phrases(AnswerWords) \ {<<>>}] : n \in 0..MaxAnswers})
    \cup TestScenarios \cup OrderScenarios \cup MalformedScenarios
    \cup SpacedScenarios

\* The ids of the users.
Users == {1, 2}

\* The entries created, the synonyms of a body, the requests to
\* POST /practice/check.
MaxEntries == 1

MaxSynonyms == 2

MaxRequests == 1

\* "b", " b", "b,c", " ".
SynonymPool == {<<98>>, <<32, 98>>, <<98, 44, 99>>, <<32>>}

SynonymLists == UNION {[1..n -> SynonymPool] : n \in 0..MaxSynonyms}

\* The bodies of POST /vocabulary: the word a, the translations "b" and
\* " c", with no synonyms field or with a list; and a body without a
\* translation.
CreateBodies ==
  [word : {<<97>>},
   translation : {<<98>>, <<32, 99>>},
   language : {Undefined},
   synonyms : {Undefined} \cup {Defined(list) : list \in SynonymLists}]
    \cup {[word |-> <<97>>, translation |-> <<>>, language |-> Undefined,
           synonyms |-> Undefined]}

\* The bodies of PUT /vocabulary/:id: a new translation, a list of
\* synonyms, both or none.
UpdateBodies ==
  [word : {Undefined},
   translation : {Undefined, Defined(<<99>>)},
   learned : {Undefined},
   mastered : {Undefined},
   synonyms : {Undefined} \cup {Defined(list) : list \in SynonymLists}]

\* The entries practised, as bodies of POST /vocabulary: a with the
\* translation "\u010daj"; a with "caj" and the synonym "b,c"; a with "b" and
\* the synonyms "caj" and "\u010daj".
PracticeEntries == {
    [word |-> <<97>>, translation |-> <<269, 97, 106>>, language |-> Undefined,
     synonyms |-> Undefined],
    [word |-> <<97>>, translation |-> <<99, 97, 106>>, language |-> Undefined,
     synonyms |-> Defined(<<<<98, 44, 99>>>>)],
    [word |-> <<97>>, translation |-> <<98>>, language |-> Undefined,
     synonyms |-> Defined(<<<<99, 97, 106>>, <<269, 97, 106>>>>)]
  }

\* The answers sent: "caj", "\u010daj", "a", "b", null, a number.
SentAnswers ==
  {<<99, 97, 106>>, <<269, 97, 106>>, <<97>>, <<98>>, JSNull, JSNumber}

\* The bodies of POST /practice/check: the entry 1 with an answer in the
\* default mode or in the translation-word mode; and bodies without an id,
\* without an answer and with an unknown mode.
CheckBodies ==
  [id : {1}, userTranslation : SentAnswers,
   mode : {Undefined, Defined("translation-word")}]
    \cup {[id |-> 0, userTranslation |-> <<97>>, mode |-> Undefined],
          [id |-> 1, userTranslation |-> JSUndefined, mode |-> Undefined],
          [id |-> 1, userTranslation |-> <<97>>, mode |-> Defined("quiz")]}

\* The requests to POST /practice/check that are in flight together.
MaxConcurrent == 2

\* The answers counted in a practice session.
MaxAttempts == 2

\* The entries of a practice session, as bodies of POST /vocabulary: user 1
\* has a with the translation "b" and the synonym "c", user 2 has a with the
\* translation "b" in english.
SessionEntries ==
  <<[word |-> <<97>>, translation |-> <<98>>, language |-> Undefined,
     synonyms |-> Defined(<<<<99>>>>)],
    [word |-> <<97>>, translation |-> <<98>>, language |-> Defined("english"),
     synonyms |-> Undefined]>>

\* The requests to POST /practice/check in a session, as user and body:
\* user 1 answers "b" and "a" for entry 1 and "b" for entry 2, user 2
\* answers "b" for entry 2 and for entry 1.
SessionChecks ==
  {<<1, [id |-> 1, userTranslation |-> <<98>>, mode |-> Undefined]>>,
   <<1, [id |-> 1, userTranslation |-> <<97>>, mode |-> Undefined]>>,
   <<1, [id |-> 2, userTranslation |-> <<98>>, mode |-> Undefined]>>,
   <<2, [id |-> 2, userTranslation |-> <<98>>, mode |-> Undefined]>>,
   <<2, [id |-> 1, userTranslation |-> <<98>>, mode |-> Undefined]>>}

\* The queries of GET /practice/word: no parameter, a language, an unknown
\* mode.
WordQueries ==
  {[mode |-> Undefined, language |-> Undefined],
   [mode |-> Undefined, language |-> Defined("english")],
   [mode |-> Defined("quiz"), language |-> Undefined]}

\* The language parameter of POST /practice/reset.
ResetLanguages == {Undefined, Defined("english")}

\* The bodies of PUT /vocabulary/:id in a session: learned: false,
\* learned: true and mastered: true.
SessionUpdates ==
  {[word |-> Undefined, translation |-> Undefined, learned |-> Defined(FALSE),
    mastered |-> Undefined, synonyms |-> Undefined],
   [word |-> Undefined, translation |-> Undefined, learned |-> Defined(TRUE),
    mastered |-> Undefined, synonyms |-> Undefined],
   [word |-> Undefined, translation |-> Undefined, learned |-> Undefined,
    mastered |-> Defined(TRUE), synonyms |-> Undefined]}

(***************************************************************************)
(* The calls                                                               *)
(***************************************************************************)

InitNormalize ==
  /\ userAnswer \in TextInputs
  /\ correctAnswer = <<>>
  /\ possibleAnswers = <<>>
  /\ call = "none"
  /\ ret = <<>>
  /\ database = EmptyDatabase
  /\ requests = <<>>

InitEquivalent ==
  /\ \E pair \in PairInputs : userAnswer = pair[1] /\ correctAnswer = pair[2]
  /\ possibleAnswers = <<>>
  /\ call = "none"
  /\ ret = <<>>
  /\ database = EmptyDatabase
  /\ requests = <<>>

InitMatch ==
  /\ \E scenario \in MatchInputs :
       userAnswer = scenario[1] /\ possibleAnswers = scenario[2]
  /\ correctAnswer = <<>>
  /\ call = "none"
  /\ ret = <<>>
  /\ database = EmptyDatabase
  /\ requests = <<>>

Returns(name, value) ==
  /\ call = "none"
  /\ call' = name
  /\ ret' = value
  /\ UNCHANGED <<userAnswer, correctAnswer, possibleAnswers, database, requests>>

NormalizeText == Returns("normalizeText", normalizeText(userAnswer))

PracticeNormalizeText == Returns("practiceNormalizeText", practiceNormalizeText(userAnswer))

SplitIntoWords == Returns("splitIntoWords", splitIntoWords(userAnswer))

AreAnswersEquivalent ==
  Returns("areAnswersEquivalent", areAnswersEquivalent(userAnswer, correctAnswer))

CompareAnswers == Returns("compareAnswers", compareAnswers(userAnswer, correctAnswer))

\* The call ends by the exception error.
Throws(error) ==
  /\ call = "none"
  /\ call' = "thrown"
  /\ ret' = error
  /\ UNCHANGED <<userAnswer, correctAnswer, possibleAnswers, database, requests>>

CompareWithMultipleAnswers ==
  IF compareWithMultipleAnswersThrows(userAnswer, possibleAnswers)
  THEN Throws("TypeError")
  ELSE Returns("compareWithMultipleAnswers",
               compareWithMultipleAnswers(userAnswer, possibleAnswers))

NextNormalize == NormalizeText \/ PracticeNormalizeText \/ SplitIntoWords

NextEquivalent == AreAnswersEquivalent \/ CompareAnswers

NextMatch == CompareWithMultipleAnswers

SpecNormalize == InitNormalize /\ [][NextNormalize]_vars

SpecEquivalent == InitEquivalent /\ [][NextEquivalent]_vars

SpecMatch == InitMatch /\ [][NextMatch]_vars

\* A handler of the vocabulary routes has answered.
Responds(name, response) ==
  /\ call' = name
  /\ ret' = response
  /\ UNCHANGED <<userAnswer, correctAnswer, possibleAnswers, requests>>

InitVocabulary ==
  /\ userAnswer = <<>>
  /\ correctAnswer = <<>>
  /\ possibleAnswers = <<>>
  /\ call = "none"
  /\ ret = <<>>
  /\ database = EmptyDatabase
  /\ requests = <<>>

CreateVocabulary ==
  \E userId \in Users, body \in CreateBodies :
    /\ database.lastID < MaxEntries
    /\ database' = createVocabulary(database, userId, body).db
    /\ Responds("POST /vocabulary",
                [status |-> createVocabulary(database, userId, body).status])

UpdateVocabulary ==
  \E userId \in Users, id \in 1..MaxEntries, updates \in UpdateBodies :
    /\ database' = updateVocabulary(database, userId, id, updates).db
    /\ Responds("PUT /vocabulary/:id",
                [userId |-> userId, id |-> id, updates |-> updates,
                 status |-> updateVocabulary(database, userId, id, updates).status])

DeleteVocabulary ==
  \E userId \in Users, id \in 1..MaxEntries :
    /\ database' = deleteVocabulary(database, userId, id).db
    /\ Responds("DELETE /vocabulary/:id",
                [status |-> deleteVocabulary(database, userId, id).status])

GetAllAnswersForVocabulary ==
  \E vocabularyId \in 1..MaxEntries :
    \E concat \in groupConcat(database, vocabularyId) :
      /\ Responds("getAllAnswersForVocabulary",
                  getAllAnswersForVocabulary(database, vocabularyId, concat))
      /\ UNCHANGED database

NextVocabulary ==
  CreateVocabulary \/ UpdateVocabulary \/ DeleteVocabulary
    \/ GetAllAnswersForVocabulary

SpecVocabulary == InitVocabulary /\ [][NextVocabulary]_vars

\* A request to POST /practice/check that has not arrived.
IdleRequest ==
  [pc |-> "idle", userId |-> 0, body |-> <<>>, row |-> <<>>,
   possibleAnswers |-> <<>>, comparisonResult |-> <<>>,
   status |-> 0, result |-> <<>>]

InitPractice ==
  /\ userAnswer = <<>>
  /\ correctAnswer = <<>>
  /\ possibleAnswers = <<>>
  /\ call = "none"
  /\ ret = <<>>
  /\ \E body \in PracticeEntries :
       database = createVocabulary(EmptyDatabase, 1, body).db
  /\ requests = [r \in 1..MaxRequests |-> IdleRequest]

\* practiceMode of POST /practice/check: mode || 'word-translation'.
practiceModeOf(body) ==
  IF body.mode = Undefined \/ body.mode[1] = "" THEN "word-translation"
  ELSE body.mode[1]

\* The request has been answered.
responded(request, status, result) ==
  [request EXCEPT !.pc = "done", !.status = status, !.result = result]

\* The handler from the answers of the entry to the UPDATE it sends: the
\* exception of the matcher is caught and answered by 500.
compared(request, row, allTranslations) ==
  LET practiceMode == practiceModeOf(request.body)
      answers == possibleAnswersFor(practiceMode, row, allTranslations)
      userTranslation == request.body.userTranslation
  IN IF compareWithMultipleAnswersThrows(userTranslation, answers)
     THEN [responded(request, 500, "Failed to check answer")
             EXCEPT !.row = Defined(row), !.possibleAnswers = answers]
     ELSE [request EXCEPT
             !.pc = "update",
             !.row = Defined(row),
             !.possibleAnswers = answers,
             !.comparisonResult = compareWithMultipleAnswers(userTranslation, answers),
             !.result = practiceResult(
                          compareWithMultipleAnswers(userTranslation, answers),
                          expectedAnswerFor(practiceMode, row),
                          userTranslation, answers)]

\* The row as the first SELECT of POST /practice/check returns it.
checkedRow(row) ==
  [word |-> row.word, translation |-> row.translation, language |-> row.language]

\* The handler from the arrival of the request to the answer of the first
\* SELECT: 400 for a body without id or answer or with an unknown mode, 404
\* when the user has no such entry; then the second SELECT is sent in the
\* word-translation mode, and the answer is compared at once in the other.
selected(request, rows) ==
  LET body == request.body
  IN IF body.id = 0 \/ body.userTranslation = JSUndefined
     THEN responded(request, 400, "Word ID and user translation are required")
     ELSE IF practiceModeOf(body) \notin {"word-translation", "translation-word"}
     THEN responded(request, 400, "Invalid practice mode")
     ELSE IF rows = {} THEN responded(request, 404, "Word not found")
     ELSE IF practiceModeOf(body) = "word-translation"
     THEN [request EXCEPT !.pc = "answers",
                          !.row = Defined(checkedRow(CHOOSE row \in rows : TRUE))]
     ELSE compared(request, checkedRow(CHOOSE row \in rows : TRUE), <<>>)

\* POST /practice/check with the body arrives from userId and runs to the
\* answer of its first SELECT.
CheckArrives(r, userId, body) ==
  /\ requests[r].pc = "idle"
  /\ requests' = [requests EXCEPT ![r] =
       selected([requests[r] EXCEPT !.userId = userId, !.body = body],
                {row \in database.vocabulary :
                   row.id = body.id /\ row.user_id = userId})]
  /\ UNCHANGED <<userAnswer, correctAnswer, possibleAnswers, call, ret, database>>

CheckSelect(r) ==
  \E userId \in Users, body \in CheckBodies : CheckArrives(r, userId, body)

CheckAnswers(r) ==
  /\ requests[r].pc = "answers"
  /\ \E concat \in groupConcat(database, requests[r].body.id) :
       requests' = [requests EXCEPT ![r] =
         compared(requests[r], requests[r].row[1],
                  getAllAnswersForVocabulary(database, requests[r].body.id, concat))]
  /\ UNCHANGED <<userAnswer, correctAnswer, possibleAnswers, call, ret, database>>

CheckUpdate(r) ==
  /\ requests[r].pc = "update"
  /\ database' = [database EXCEPT !.vocabulary =
       attemptCounted(@, requests[r].body.id, requests[r].userId,
                      requests[r].comparisonResult.isCorrect)]
  /\ requests' = [requests EXCEPT ![r] = responded(@, 200, @.result)]
  /\ UNCHANGED <<userAnswer, correctAnswer, possibleAnswers, call, ret>>

NextPractice ==
  \/ \E r \in 1..MaxRequests : CheckSelect(r)
  \/ \E r \in 1..MaxRequests : CheckAnswers(r)
  \/ \E r \in 1..MaxRequests : CheckUpdate(r)
  \/ DeleteVocabulary

SpecPractice == InitPractice /\ [][NextPractice]_vars

\* A practice session: each user has created an entry.
InitSession ==
  /\ userAnswer = <<>>
  /\ correctAnswer = <<>>
  /\ possibleAnswers = <<>>
  /\ call = "none"
  /\ ret = <<>>
  /\ database =
       createVocabulary(createVocabulary(EmptyDatabase, 1, SessionEntries[1]).db,
                        2, SessionEntries[2]).db
  /\ requests = [r \in 1..MaxRequests |-> IdleRequest]

\* A request that arrives is the first of those not in flight.
NextToArrive(r) ==
  /\ requests[r].pc = "idle"
  /\ \A q \in 1..(r - 1) : requests[q].pc # "idle"

\* The request is one to POST /practice/check.
IsCheck(request) == "userTranslation" \in DOMAIN request.body

RECURSIVE attemptsOf(_)
\* The answers counted in the rows.
attemptsOf(rows) ==
  IF rows = {} THEN 0
  ELSE LET row == CHOOSE row \in rows : TRUE
       IN row.correct_attempts + row.wrong_attempts + attemptsOf(rows \ {row})

\* The answers that are counted or will be when the requests in flight end.
attempts ==
  attemptsOf(database.vocabulary)
    + Cardinality({r \in DOMAIN requests :
                     /\ IsCheck(requests[r])
                     /\ requests[r].pc \in {"answers", "update"}})

SessionCheckSelect(r) ==
  /\ NextToArrive(r)
  /\ attempts < MaxAttempts
  /\ \E check \in SessionChecks : CheckArrives(r, check[1], check[2])

\* The response has been sent and the request is over.
RequestEnds(r) ==
  /\ requests[r].pc = "done"
  /\ requests' = [requests EXCEPT ![r] = IdleRequest]
  /\ UNCHANGED <<userAnswer, correctAnswer, possibleAnswers, call, ret, database>>

\* GET /practice/word arrives and runs to the answer of its SELECT: 400 for
\* an unknown mode, 404 when the user has no word to practise, else the
\* answers of the row selected are asked for.
WordSelect(r) ==
  /\ NextToArrive(r)
  /\ \E userId \in Users, query \in WordQueries :
       LET request == [requests[r] EXCEPT !.userId = userId, !.body = query]
           rows == wordsForPractice(database.vocabulary, userId, query.language)
       IN IF practiceModeOf(query) \notin {"word-translation", "translation-word"}
          THEN requests' = [requests EXCEPT ![r] =
                 responded(request, 400, "Invalid practice mode")]
          ELSE IF rows = {}
          THEN requests' = [requests EXCEPT ![r] =
                 responded(request, 404, "No unlearned words available for practice")]
          ELSE \E row \in rows :
                 requests' = [requests EXCEPT ![r] =
                   [request EXCEPT !.pc = "synonyms",
                                   !.row = Defined(practiceRow(row))]]
  /\ UNCHANGED <<userAnswer, correctAnswer, possibleAnswers, call, ret, database>>

\* GET /practice/word from the answers of the entry to the response.
WordSynonyms(r) ==
  /\ requests[r].pc = "synonyms"
  /\ \E concat \in groupConcat(database, requests[r].row[1].id) :
       requests' = [requests EXCEPT ![r] =
         responded(@, 200,
           practiceSession(@.row[1], practiceModeOf(@.body),
             getAllAnswersForVocabulary(database, @.row[1].id, concat)))]
  /\ UNCHANGED <<userAnswer, correctAnswer, possibleAnswers, call, ret, database>>

\* POST /practice/reset; changes is the number of rows of the UPDATE.
ResetPractice ==
  \E userId \in Users, language \in ResetLanguages :
    /\ database' = [database EXCEPT !.vocabulary = resetPractice(@, userId, language)]
    /\ Responds("POST /practice/reset",
                [userId |-> userId, language |-> language, status |-> 200,
                 changes |-> Cardinality(
                   rowsToReset(database.vocabulary, userId, language))])

\* PUT /vocabulary/1 by user 1 in a session.
SessionUpdate ==
  \E updates \in SessionUpdates :
    /\ database' = updateVocabulary(database, 1, 1, updates).db
    /\ Responds("PUT /vocabulary/:id",
                [userId |-> 1, id |-> 1, updates |-> updates,
                 status |-> updateVocabulary(database, 1, 1, updates).status])

NextSession ==
  \/ \E r \in 1..MaxRequests : SessionCheckSelect(r)
  \/ \E r \in 1..MaxRequests : CheckAnswers(r)
  \/ \E r \in 1..MaxRequests : CheckUpdate(r)
  \/ \E r \in 1..MaxRequests : WordSelect(r)
  \/ \E r \in 1..MaxRequests : WordSynonyms(r)
  \/ \E r \in 1..MaxRequests : RequestEnds(r)
  \/ ResetPractice
  \/ SessionUpdate

SpecSession == InitSession /\ [][NextSession]_vars

\* Requests to POST /practice/check that are in flight together.
InitConcurrent ==
  /\ userAnswer = <<>>
  /\ correctAnswer = <<>>
  /\ possibleAnswers = <<>>
  /\ call = "none"
  /\ ret = <<>>
  /\ database =
       createVocabulary(createVocabulary(EmptyDatabase, 1, SessionEntries[1]).db,
                        2, SessionEntries[2]).db
  /\ requests = [r \in 1..MaxConcurrent |-> IdleRequest]

NextConcurrent ==
  \/ \E r \in 1..MaxConcurrent : SessionCheckSelect(r)
  \/ \E r \in 1..MaxConcurrent : CheckAnswers(r)
  \/ \E r \in 1..MaxConcurrent : CheckUpdate(r)

SpecConcurrent == InitConcurrent /\ [][NextConcurrent]_vars

(***************************************************************************)
(* Properties                                                              *)
(***************************************************************************)

\* The words of a and b are pairwise equal after normalization.
SameWords(a, b) ==
  LET wa == splitIntoWords(a)
      wb == splitIntoWords(b)
  IN /\ Len(wa) = Len(wb)
     /\ \A k \in 1..Len(wa) : normalizeText(wa[k]) = normalizeText(wb[k])

\* "  hello  world " and "hello world".
HelloWorldPair ==
  <<<<32, 32, 104, 101, 108, 108, 111, 32, 32, 119, 111, 114, 108, 100, 32>>,
    <<104, 101, 108, 108, 111, 32, 119, 111, 114, 108, 100>>>>

Equivalents ==
  {i \in 1..Len(possibleAnswers) : areAnswersEquivalent(userAnswer, possibleAnswers[i])}

\* The least element of a non-empty set of numbers.
Least(S) == CHOOSE i \in S : \A j \in S : i <= j

Matched == call = "compareWithMultipleAnswers"

\* C2: compareWithMultipleAnswers returns isCorrect = true exactly when some
\* candidate is equivalent to the user answer, and then matchedAnswer and
\* bestMatch are the raw text of the first such candidate and wordDifferences
\* is empty; "Ku\u0107a" against "ku\u0107a", "dom", "house" matches
\* "ku\u0107a", and "Hi" against "hello", "hi" matches "hi".
C2_FirstEquivalentCandidate ==
  Matched =>
    /\ ret.isCorrect = (Equivalents # {})
    /\ Equivalents # {} =>
         /\ ret.matchedAnswer = Defined(possibleAnswers[Least(Equivalents)])
         /\ ret.bestMatch = possibleAnswers[Least(Equivalents)]
         /\ ret.wordDifferences = <<>>
    /\ (userAnswer = <<75, 117, 263, 97>> /\ Len(possibleAnswers) = 3)
         => ret.matchedAnswer = Defined(<<107, 117, 263, 97>>)
    /\ userAnswer = <<72, 105>> => ret.matchedAnswer = Defined(<<104, 105>>)

\* Several candidates of different raw text are equivalent to the user
\* answer, the first of them is not the first candidate, and it is returned
\* although it is not the text the user typed.
C2_Witness ==
  /\ Matched
  /\ ret.isCorrect
  /\ \E i, j \in Equivalents : i < j /\ possibleAnswers[i] # possibleAnswers[j]
  /\ Least(Equivalents) > 1
  /\ ret.matchedAnswer # Defined(userAnswer)

\* The number of incorrect entries of the diff against each candidate.
Wrong ==
  [i \in 1..Len(possibleAnswers) |->
     incorrectCount(compareAnswers(userAnswer, possibleAnswers[i]))]

\* The candidates with the least of the numbers in wrong.
Closest(wrong) ==
  {i \in DOMAIN wrong : \A j \in DOMAIN wrong : wrong[i] <= wrong[j]}

\* C3: when no candidate is equivalent to the user answer and the list is
\* not empty, bestMatch is the earliest candidate whose diff has the least
\* number of incorrect entries; "good night" against "good morning",
\* "good evening" gives "good morning", and "bad" against "good", "nice",
\* "fine" gives "good".
C3_EarliestClosestCandidate ==
  (Matched /\ Equivalents = {} /\ possibleAnswers # <<>>) =>
    /\ ret.bestMatch = possibleAnswers[Least(Closest(Wrong))]
    /\ userAnswer = <<103, 111, 111, 100, 32, 110, 105, 103, 104, 116>>
         => ret.bestMatch = <<103, 111, 111, 100, 32, 109, 111, 114, 110, 105, 110, 103>>
    /\ userAnswer = <<98, 97, 100>> => ret.bestMatch = <<103, 111, 111, 100>>

\* Two candidates of different text tie for the least count, and the count
\* of the first candidate of the list may be larger.
C3_Witness ==
  /\ Matched
  /\ ~ret.isCorrect
  /\ \E i, j \in Closest(Wrong) : i < j /\ possibleAnswers[i] # possibleAnswers[j]
  /\ ret.bestMatch = possibleAnswers[Least(Closest(Wrong))]
  /\ Wrong[Least(Closest(Wrong))] > 0

\* The candidate list in the order given by a permutation of its indices.
Reordered(perm) == [i \in 1..Len(possibleAnswers) |-> possibleAnswers[perm[i]]]

\* C4: isCorrect does not depend on the order of the candidates: every
\* permutation of the candidate list gives the isCorrect returned.
C4_CorrectnessOrderIndependent ==
  Matched =>
    \A perm \in Permutations(1..Len(possibleAnswers)) :
      compareWithMultipleAnswers(userAnswer, Reordered(perm)).isCorrect = ret.isCorrect

\* A correct answer whose reported match changes with the order of the
\* candidates.
C4_Witness ==
  /\ Matched
  /\ ret.isCorrect
  /\ Least(Equivalents) > 1
  /\ \E perm \in Permutations(1..Len(possibleAnswers)) :
       compareWithMultipleAnswers(userAnswer, Reordered(perm)).matchedAnswer
         # ret.matchedAnswer

\* C5: when no candidate is equivalent and the list is not empty, the result
\* has isCorrect = false, no matchedAnswer, a bestMatch that is a candidate
\* of the list, and as wordDifferences the diff of the user answer against
\* bestMatch.
C5_FailureResult ==
  (Matched /\ Equivalents = {} /\ possibleAnswers # <<>>) =>
    /\ ret.isCorrect = FALSE
    /\ ret.matchedAnswer = Undefined
    /\ \E i \in 1..Len(possibleAnswers) : ret.bestMatch = possibleAnswers[i]
    /\ ret.wordDifferences = compareAnswers(userAnswer, ret.bestMatch)

\* A failure whose bestMatch is not the first candidate and whose diff has
\* correct and incorrect entries.
C5_Witness ==
  /\ Matched
  /\ Equivalents = {}
  /\ Len(possibleAnswers) > 1
  /\ ret.bestMatch # possibleAnswers[1]
  /\ \E k \in 1..Len(ret.wordDifferences) : ret.wordDifferences[k].isCorrect
  /\ \E k \in 1..Len(ret.wordDifferences) : ~ret.wordDifferences[k].isCorrect

\* C6: both normalizers are idempotent: normalizing the text that
\* normalizeText returned returns it unchanged, in the matcher and in the
\* practice route.
C6_NormalizeIdempotent ==
  /\ call = "normalizeText" => normalizeText(ret) = ret
  /\ call = "practiceNormalizeText" => practiceNormalizeText(ret) = ret

\* normalizeText lower-cased, stripped a mark and trimmed in one call.
C6_Witness ==
  /\ call = "normalizeText"
  /\ Len(ret) > 0
  /\ Len(ret) < Len(userAnswer)
  /\ userAnswer[1] \in WhiteSpace
  /\ \E k \in 1..Len(userAnswer) : userAnswer[k] \in CombiningMarks \cup Decomposable
  /\ \E k \in 1..Len(userAnswer) : LowerOf(userAnswer[k]) # <<userAnswer[k]>>

\* C7: areAnswersEquivalent is true exactly when the normalized texts are
\* equal, so it ignores letter case, leading and trailing whitespace and
\* diacritics: "\u017dIR" and "zir", and "\u010daj" and "caj", are
\* equivalent, "hello" and "world" are not.
C7_EquivalentIffNormalizedEqual ==
  call = "areAnswersEquivalent" =>
    /\ ret = (normalizeText(userAnswer) = normalizeText(correctAnswer))
    /\ trim(toLowerCase(userAnswer)) = trim(toLowerCase(correctAnswer)) => ret = TRUE
    /\ (userAnswer = <<381, 73, 82>> /\ correctAnswer = <<122, 105, 114>>) => ret = TRUE
    /\ (userAnswer = <<269, 97, 106>> /\ correctAnswer = <<99, 97, 106>>) => ret = TRUE
    /\ (userAnswer = <<104, 101, 108, 108, 111>> /\ correctAnswer = <<119, 111, 114, 108, 100>>)
         => ret = FALSE

\* "\u017dIR" was found equivalent to "zir".
C7_Witness ==
  /\ call = "areAnswersEquivalent"
  /\ userAnswer = <<381, 73, 82>>
  /\ correctAnswer = <<122, 105, 114>>
  /\ ret = TRUE

\* C8: the matcher's normalizer maps every letter of the diacritic table,
\* lowercase and uppercase, to its base letter, so that each is equivalent
\* to its base letter.
C8_TableLettersFold ==
  (/\ call = "areAnswersEquivalent"
   /\ \E row \in DiacriticTable :
        userAnswer \in {<<row[1]>>, <<row[2]>>} /\ correctAnswer = <<row[3]>>)
    => ret = TRUE

\* C9: the two normalizers return the same text for every string of the
\* testable properties.
C9_NormalizersAgreeOnTestVectors ==
  userAnswer \in TestVectors =>
    /\ call = "normalizeText" => ret = practiceNormalizeText(userAnswer)
    /\ call = "practiceNormalizeText" => ret = normalizeText(userAnswer)

\* The practice route's normalizer folded "\u017dIR" to "zir".
C9_Witness ==
  /\ call = "practiceNormalizeText"
  /\ userAnswer = <<381, 73, 82>>
  /\ ret = <<122, 105, 114>>

\* The first positions of the maximal whitespace-free runs of a text.
RunStarts(text) ==
  {i \in 1..Len(text) :
     text[i] \notin WhiteSpace /\ (i = 1 \/ text[i - 1] \in WhiteSpace)}

\* The last position of the run that starts at position i.
RunEnd(text, i) ==
  CHOOSE j \in i..Len(text) :
    /\ \A k \in i..j : text[k] \notin WhiteSpace
    /\ j = Len(text) \/ text[j + 1] \in WhiteSpace

\* The k-th run start, counted from 1.
NthRunStart(text, k) ==
  CHOOSE i \in RunStarts(text) : Cardinality({j \in RunStarts(text) : j < i}) = k - 1

\* C10: splitIntoWords returns the maximal whitespace-free substrings of the
\* text in their order: no word is empty or holds whitespace, and an empty or
\* all-whitespace text gives no word.
C10_WordsAreMaximalRuns ==
  call = "splitIntoWords" =>
    /\ Len(ret) = Cardinality(RunStarts(userAnswer))
    /\ \A k \in 1..Len(ret) :
         /\ ret[k] = SubSeq(userAnswer, NthRunStart(userAnswer, k),
                            RunEnd(userAnswer, NthRunStart(userAnswer, k)))
         /\ ret[k] # <<>>
         /\ \A n \in 1..Len(ret[k]) : ret[k][n] \notin WhiteSpace
    /\ (\A n \in 1..Len(userAnswer) : userAnswer[n] \in WhiteSpace) => ret = <<>>

\* "  hello  world ", with leading, repeated and trailing separators, was
\* split into "hello" and "world".
C10_Witness ==
  /\ call = "splitIntoWords"
  /\ userAnswer = HelloWorldPair[1]
  /\ ret = <<<<104, 101, 108, 108, 111>>, <<119, 111, 114, 108, 100>>>>

\* "dobar dan" and "dobar vece".
DobarDanPair ==
  <<<<100, 111, 98, 97, 114, 32, 100, 97, 110>>,
    <<100, 111, 98, 97, 114, 32, 118, 101, 99, 101>>>>

\* The word of the candidate at position i (0-based), the empty string when
\* the candidate has no such word.
CandidateWord(i) ==
  LET correctWords == splitIntoWords(correctAnswer)
  IN IF i + 1 <= Len(correctWords) THEN correctWords[i + 1] ELSE <<>>

\* C11: for every word u of the user's answer, at position i, compareAnswers
\* returns an entry of position i; that entry has word u, isCorrect equal to
\* areAnswersEquivalent(u, c) for c the candidate's word at position i (the
\* empty string when there is none), and correctWord c when isCorrect is
\* false, unset when it is true. "dobar dan" against "dobar vece" gives
\* dobar, correct, and dan, incorrect, correctWord "vece".
C11_EntryPerUserWord ==
  call = "compareAnswers" =>
    LET userWords == splitIntoWords(userAnswer)
    IN /\ \A k \in 1..Len(userWords) :
            /\ \E n \in 1..Len(ret) : ret[n].position = k - 1
            /\ \A n \in 1..Len(ret) :
                 ret[n].position = k - 1 =>
                   /\ ret[n].word = userWords[k]
                   /\ ret[n].isCorrect
                        = areAnswersEquivalent(userWords[k], CandidateWord(k - 1))
                   /\ ret[n].correctWord
                        = IF ret[n].isCorrect THEN Undefined
                          ELSE Defined(CandidateWord(k - 1))
       /\ <<userAnswer, correctAnswer>> = DobarDanPair =>
            ret = << [word |-> <<100, 111, 98, 97, 114>>, isCorrect |-> TRUE,
                      correctWord |-> Undefined, position |-> 0],
                     [word |-> <<100, 97, 110>>, isCorrect |-> FALSE,
                      correctWord |-> Defined(<<118, 101, 99, 101>>),
                      position |-> 1] >>

\* A word typed with a letter that differs from the candidate's only by case
\* and diacritic was compared and found correct.
C11_Witness ==
  /\ call = "compareAnswers"
  /\ \E n \in 1..Len(ret) :
       /\ ret[n].isCorrect
       /\ CandidateWord(ret[n].position) # <<>>
       /\ ret[n].word # CandidateWord(ret[n].position)

\* The words of a are the first words of b, and b has more.
StrictWordPrefix(a, b) ==
  LET wa == splitIntoWords(a)
      wb == splitIntoWords(b)
  IN /\ Len(wa) < Len(wb)
     /\ \A k \in 1..Len(wa) : wa[k] = wb[k]

\* C12: compareAnswers returns exactly one entry per word of the user's
\* answer: as many entries as words, of positions 0, 1, ..., k-1 in this
\* order; the words the candidate has beyond the user's give no entry, and
\* an answer whose words are the first words of a longer candidate gives no
\* incorrect entry.
C12_OneEntryPerUserWord ==
  call = "compareAnswers" =>
    /\ Len(ret) = Len(splitIntoWords(userAnswer))
    /\ \A n \in 1..Len(ret) : ret[n].position = n - 1
    /\ StrictWordPrefix(userAnswer, correctAnswer) =>
         \A n \in 1..Len(ret) : ret[n].isCorrect

\* A one-word answer was compared with a candidate that starts with this
\* word and has a second one.
C12_Witness ==
  /\ call = "compareAnswers"
  /\ StrictWordPrefix(userAnswer, correctAnswer)
  /\ Len(ret) = 1

\* C13: every word of the user's answer at a position at or beyond
\* the number of words of the candidate is returned with isCorrect false and
\* the empty string as correctWord, whatever the word is.
C13_ExtraWordsIncorrect ==
  call = "compareAnswers" =>
    \A n \in 1..Len(ret) :
      ret[n].position >= Len(splitIntoWords(correctAnswer)) =>
        /\ ret[n].isCorrect = FALSE
        /\ ret[n].correctWord = Defined(<<>>)

\* C14: with an empty list of candidates compareWithMultipleAnswers raises
\* no exception and returns isCorrect false, the empty string as bestMatch,
\* an empty wordDifferences and no matchedAnswer, for every answer, the
\* answers that are not strings included.
C14_EmptyCandidateList ==
  (possibleAnswers = <<>> /\ call # "none") =>
    /\ call = "compareWithMultipleAnswers"
    /\ ret = [isCorrect |-> FALSE,
              bestMatch |-> <<>>,
              wordDifferences |-> <<>>,
              matchedAnswer |-> Undefined]

\* An answer of two words was matched against no candidate.
C14_Witness ==
  /\ possibleAnswers = <<>>
  /\ call = "compareWithMultipleAnswers"
  /\ Len(splitIntoWords(userAnswer)) = 2
  /\ ret.isCorrect = FALSE

\* C15: for a string as answer and a non-empty list of strings as
\* candidates compareWithMultipleAnswers raises no exception and returns a
\* result of the four fields; an answer no candidate is equivalent to is
\* returned with isCorrect false.
C15_NoThrowOnStrings ==
  (/\ IsString(userAnswer)
   /\ possibleAnswers # <<>>
   /\ \A i \in 1..Len(possibleAnswers) : IsString(possibleAnswers[i])
   /\ call # "none") =>
    /\ call = "compareWithMultipleAnswers"
    /\ DOMAIN ret = {"isCorrect", "bestMatch", "wordDifferences", "matchedAnswer"}
    /\ ret.isCorrect \in BOOLEAN
    /\ IsString(ret.bestMatch)
    /\ (\A i \in 1..Len(possibleAnswers) :
          ~areAnswersEquivalent(userAnswer, possibleAnswers[i]))
         => ret.isCorrect = FALSE

\* The empty answer was matched against two candidates and returned as
\* wrong, with no word to show.
C15_Witness ==
  /\ userAnswer = <<>>
  /\ Len(possibleAnswers) = 2
  /\ call = "compareWithMultipleAnswers"
  /\ ret.isCorrect = FALSE
  /\ ret.wordDifferences = <<>>

\* The request has been compared or answered after the row of its entry
\* was read, in the given mode.
Compared(r, practiceMode) ==
  /\ requests[r].pc \in {"update", "done"}
  /\ requests[r].row # Undefined
  /\ practiceModeOf(requests[r].body) = practiceMode

\* C16: an answer that is not a string makes the matcher raise an exception
\* instead of comparing it, and POST /practice/check with such an answer
\* ends in an error response and changes nothing in the database: no step
\* of such a request changes the database or sends an UPDATE, and its
\* response has a status of 400 or more.
C16_MalformedAnswerRejected ==
  [][\A r \in 1..MaxRequests :
       (/\ requests'[r] # requests[r]
        /\ ~IsString(requests'[r].body.userTranslation))
         => /\ database' = database
            /\ requests'[r].pc # "update"
            /\ requests'[r].pc = "done" => requests'[r].status >= 400]_vars

\* C17: in the word-translation mode the candidates given to the matcher
\* are the translation of the entry followed by its stored synonyms, one
\* candidate per synonym and each as stored, in some order.
C17_CandidatesAreTranslationAndSynonyms ==
  \A r \in 1..MaxRequests :
    (/\ Compared(r, "word-translation")
     /\ \E row \in database.vocabulary :
          row.id = requests[r].body.id /\ checkedRow(row) = requests[r].row[1]) =>
      \E order \in Orderings(storedSynonyms(database.synonyms, requests[r].body.id)) :
        requests[r].possibleAnswers = <<requests[r].row[1].translation>> \o order

\* C18: in the translation-word mode the candidates are the word of the
\* entry alone, and the answer is accepted exactly when it is equivalent to
\* the word: an answer equivalent to the translation or to a synonym and
\* not to the word is not accepted.
C18_ReverseCandidateIsWord ==
  \A r \in 1..MaxRequests :
    Compared(r, "translation-word") =>
      /\ requests[r].possibleAnswers = <<requests[r].row[1].word>>
      /\ requests[r].status = 200 =>
           requests[r].result.correct
             = areAnswersEquivalent(requests[r].body.userTranslation,
                                    requests[r].row[1].word)

\* The translation of the entry, "b", was sent as the answer in the
\* translation-word mode and was answered as wrong.
C18_Witness ==
  \E r \in 1..MaxRequests :
    /\ Compared(r, "translation-word")
    /\ requests[r].status = 200
    /\ requests[r].body.userTranslation = requests[r].row[1].translation
    /\ requests[r].result.correct = FALSE
    /\ \E row \in database.vocabulary : row.wrong_attempts = 1

\* C19: the candidates of an entry, as getAllAnswersForVocabulary returns
\* them after any creations and updates, hold no two strings that are equal
\* after trimming.
C19_NoDuplicateCandidates ==
  call = "getAllAnswersForVocabulary" =>
    \A i, j \in 1..Len(ret) : trim(ret[i]) = trim(ret[j]) => i = j

C24_StrictlyPositional ==
  call = "compareAnswers" =>
    LET userWords == splitIntoWords(userAnswer)
        correctWords == splitIntoWords(correctAnswer)
        n == Len(correctWords)
    IN (/\ Len(userWords) = n
        /\ \A i, j \in 1..n :
             areAnswersEquivalent(correctWords[i], correctWords[j]) => i = j
        /\ {userWords[k] : k \in 1..n} = {correctWords[k] : k \in 1..n}) =>
         \A k \in 1..n :
           userWords[k] # correctWords[k] =>
             /\ ret[k].isCorrect = FALSE
             /\ ret[k].correctWord = Defined(correctWords[k])

\* "b a" was compared with "a b": both words are returned as incorrect.
C24_Witness ==
  /\ call = "compareAnswers"
  /\ userAnswer = <<98, 32, 97>>
  /\ correctAnswer = <<97, 32, 98>>
  /\ Len(ret) = 2
  /\ ~ret[1].isCorrect
  /\ ~ret[2].isCorrect

\* C25 as stated: whenever compareWithMultipleAnswers returns isCorrect
\* false and the answer has as many words as bestMatch, one entry at least
\* of wordDifferences has isCorrect false.
C25_DiffAgreesWithDecision ==
  (/\ Matched
   /\ ret.isCorrect = FALSE
   /\ Len(splitIntoWords(userAnswer)) = Len(splitIntoWords(ret.bestMatch))) =>
    \E n \in 1..Len(ret.wordDifferences) : ~ret.wordDifferences[n].isCorrect

\* The text with every run of whitespace between two words replaced by one
\* space, and its leading and trailing whitespace as typed.
SingleSpaced(text) ==
  LET body == trim(text)
      lead == Len(trimEnd(text)) - Len(body)
  IN SubSeq(text, 1, lead) \o joinWords(splitIntoWords(text))
       \o SubSeq(text, lead + Len(body) + 1, Len(text))

\* C25, amended: whenever compareWithMultipleAnswers returns isCorrect false
\* for a non-empty list of candidates and for an answer and a bestMatch
\* of as many words that separate their words by single spaces, one entry
\* at least of wordDifferences has isCorrect false; an answer that differs from a
\* candidate in the whitespace between its words only, as "A  b" from
\* "a b", is returned as wrong with every entry correct.
C25_DiffAgreesWhenSingleSpaced ==
  (Matched /\ ret.isCorrect = FALSE) =>
    /\ (/\ possibleAnswers # <<>>
        /\ Len(splitIntoWords(userAnswer)) = Len(splitIntoWords(ret.bestMatch))
        /\ SingleSpaced(userAnswer) = userAnswer
        /\ SingleSpaced(ret.bestMatch) = ret.bestMatch) =>
         \E n \in 1..Len(ret.wordDifferences) : ~ret.wordDifferences[n].isCorrect
    /\ (userAnswer = <<65, 32, 32, 98>> /\ possibleAnswers = <<<<97, 32, 98>>>>) =>
         \A n \in 1..Len(ret.wordDifferences) : ret.wordDifferences[n].isCorrect

\* A single-spaced answer of two words was returned as wrong against a
\* bestMatch of two words, with one entry correct and one incorrect.
C25_Witness ==
  /\ Matched
  /\ ret.isCorrect = FALSE
  /\ SingleSpaced(userAnswer) = userAnswer
  /\ Len(splitIntoWords(userAnswer)) = 2
  /\ Len(splitIntoWords(ret.bestMatch)) = 2
  /\ \E n, m \in 1..2 :
       ret.wordDifferences[n].isCorrect /\ ~ret.wordDifferences[m].isCorrect

\* C21: whenever the response of POST /practice/check has originalAnswer,
\* the answer the user typed differs from the matched answer as stored: a
\* user who typed the stored answer with its diacritics is not shown it
\* again.
C21_RevealOnlyWhenTypedDiffers ==
  \A r \in 1..MaxRequests :
    (/\ requests[r].pc = "done"
     /\ requests[r].status = 200
     /\ requests[r].result.originalAnswer # Undefined) =>
      requests[r].body.userTranslation # requests[r].result.originalAnswer[1]

\* C22: POST /practice/check never gives the matcher an empty list of
\* candidates: every request that reached the comparison, whatever the
\* deletes that ran between its steps, compared the answer with at least
\* one candidate.
C22_CandidatesNeverEmpty ==
  \A r \in 1..MaxRequests :
    (requests[r].pc \in {"update", "done"} /\ requests[r].row # Undefined) =>
      requests[r].possibleAnswers # <<>>

\* The rows of the entry the request names that its user owns.
EntryOf(request) ==
  {row \in database.vocabulary :
     row.id = request.body.id /\ row.user_id = request.userId}

\* C23: a step of POST /practice/check changes the database only when the
\* MatchResult has been computed, and then only the entry of the request:
\* after a correct answer learned is 1 and correct_attempts one more with
\* wrong_attempts as before, after an incorrect answer wrong_attempts is
\* one more with learned and correct_attempts as before; mastered, word,
\* translation, every other entry and the synonyms are as before.
C23_MutationAfterMatch ==
  [][\A r \in 1..MaxRequests :
       (requests'[r] # requests[r] /\ IsCheck(requests'[r])) =>
         IF requests[r].pc = "update" /\ EntryOf(requests[r]) # {}
         THEN \E old \in EntryOf(requests[r]), new \in database'.vocabulary :
                /\ database' = [database EXCEPT !.vocabulary = (@ \ {old}) \cup {new}]
                /\ requests[r].comparisonResult # <<>>
                /\ new.id = old.id
                /\ new.user_id = old.user_id
                /\ new.mastered = old.mastered
                /\ new.word = old.word
                /\ new.translation = old.translation
                /\ new.language = old.language
                /\ IF requests[r].comparisonResult.isCorrect
                   THEN /\ new.learned = 1
                        /\ new.correct_attempts = old.correct_attempts + 1
                        /\ new.wrong_attempts = old.wrong_attempts
                   ELSE /\ new.learned = old.learned
                        /\ new.correct_attempts = old.correct_attempts
                        /\ new.wrong_attempts = old.wrong_attempts + 1
         ELSE database' = database]_vars

\* With no reset and no update so far, a wrong answer was counted on the
\* entry that a correct answer had made learned: the entry is still
\* learned and has one correct and one wrong attempt.
C23_Witness ==
  /\ call = "none"
  /\ \E r \in 1..MaxRequests :
       /\ IsCheck(requests[r])
       /\ requests[r].pc = "done"
       /\ requests[r].status = 200
       /\ requests[r].result.correct = FALSE
       /\ \E row \in EntryOf(requests[r]) :
            /\ row.learned = 1
            /\ row.correct_attempts = 1
            /\ row.wrong_attempts = 1

\* The request is one to GET /practice/word.
IsWord(request) == "language" \in DOMAIN request.body

\* C26: the entry GET /practice/word serves is a row that its SELECT found
\* with the user of the request, learned 0 and mastered 0, and the response
\* names that row; a correct answer accepted by POST /practice/check leaves
\* the entry with learned 1, and learned goes back from 1 to 0 only by
\* POST /practice/reset or by PUT /vocabulary/:id with learned: false: so
\* an entry answered correctly is not selected again before one of them.
C26_ServedOnlyUnlearned ==
  [][/\ \A r \in 1..MaxRequests :
          (/\ IsWord(requests'[r])
           /\ requests[r].pc = "idle"
           /\ requests'[r].row # Undefined) =>
            \E row \in database.vocabulary :
              /\ practiceRow(row) = requests'[r].row[1]
              /\ row.user_id = requests'[r].userId
              /\ row.learned = 0
              /\ row.mastered = 0
     /\ \A r \in 1..MaxRequests :
          (/\ IsWord(requests'[r])
           /\ requests'[r] # requests[r]
           /\ requests'[r].pc = "done"
           /\ requests'[r].row # Undefined) =>
            /\ requests'[r].status = 200
            /\ requests'[r].result.id = requests'[r].row[1].id
            /\ requests'[r].result.word = requests'[r].row[1].word
            /\ requests'[r].row = requests[r].row
     /\ \A r \in 1..MaxRequests :
          (/\ IsWord(requests'[r])
           /\ requests'[r] # requests[r]
           /\ requests'[r].row = Undefined) =>
            requests'[r].status \in {400, 404}
     /\ \A r \in 1..MaxRequests :
          (/\ IsCheck(requests'[r])
           /\ requests'[r] # requests[r]
           /\ requests'[r].pc = "done"
           /\ requests'[r].status = 200
           /\ requests'[r].result.correct) =>
            \A row \in database'.vocabulary :
              (row.id = requests'[r].body.id) => row.learned = 1
     /\ \A old \in database.vocabulary, new \in database'.vocabulary :
          (new.id = old.id /\ old.learned = 1 /\ new.learned = 0) =>
            /\ requests' = requests
            /\ \/ call' = "POST /practice/reset"
               \/ /\ call' = "PUT /vocabulary/:id"
                  /\ ret'.updates.learned = Defined(FALSE)]_vars

\* GET /practice/word was answered 404 for the user of entry 1, who has no
\* other entry, after a correct answer to the entry was counted and while
\* the entry is learned and not mastered.
C26_Witness ==
  \E r \in 1..MaxRequests :
    /\ IsWord(requests[r])
    /\ requests[r].userId = 1
    /\ requests[r].body.language = Undefined
    /\ requests[r].pc = "done"
    /\ requests[r].status = 404
    /\ \E row \in database.vocabulary :
         /\ row.id = 1
         /\ row.learned = 1
         /\ row.mastered = 0
         /\ row.correct_attempts = 1

\* The step is POST /practice/reset.
ResetStep == requests' = requests /\ call' = "POST /practice/reset"

C28_UserIsolation ==
  [][/\ \A r \in 1..MaxRequests :
          (requests'[r] # requests[r] /\ requests'[r].pc # "idle") =>
            /\ \A row \in database.vocabulary :
                 row.user_id # requests'[r].userId => row \in database'.vocabulary
            /\ (/\ IsCheck(requests'[r])
                /\ requests[r].pc = "idle"
                /\ \E row \in database.vocabulary :
                     /\ row.id = requests'[r].body.id
                     /\ row.user_id # requests'[r].userId) =>
                 /\ requests'[r].pc = "done"
                 /\ requests'[r].status = 404
                 /\ database' = database
     /\ ResetStep =>
          \A row \in database.vocabulary :
            row.user_id # ret'.userId => row \in database'.vocabulary]_vars

\* User 1 sent the right answer for the entry of user 2, which user 2 had
\* answered before, and was answered 404: the entry has the one correct
\* attempt of user 2.
C28_Witness ==
  \E r \in 1..MaxRequests :
    /\ IsCheck(requests[r])
    /\ requests[r].userId = 1
    /\ requests[r].body.id = 2
    /\ requests[r].body.userTranslation = <<98>>
    /\ requests[r].pc = "done"
    /\ requests[r].status = 404
    /\ \E row \in database.vocabulary :
         /\ row.id = 2
         /\ row.user_id = 2
         /\ row.learned = 1
         /\ row.correct_attempts = 1
         /\ row.wrong_attempts = 0

\* The requests to POST /practice/check for the entry that were answered
\* with a result saying correct or not.
Answered(id, correct) ==
  {r \in 1..MaxConcurrent :
     /\ IsCheck(requests[r])
     /\ requests[r].pc = "done"
     /\ requests[r].status = 200
     /\ requests[r].body.id = id
     /\ requests[r].result.correct = correct}

\* C29: whatever the order of the steps of the requests to
\* POST /practice/check that are in flight together, the correct_attempts
\* of an entry is the number of requests for it answered as correct and
\* its wrong_attempts the number answered as wrong: no answer is lost and
\* none is counted twice.
C29_NoLostAttempts ==
  \A row \in database.vocabulary :
    /\ row.correct_attempts = Cardinality(Answered(row.id, TRUE))
    /\ row.wrong_attempts = Cardinality(Answered(row.id, FALSE))

\* Two requests for entry 1 were answered, one as correct and one as
\* wrong, and the entry has one correct and one wrong attempt.
C29_Witness ==
  /\ Answered(1, TRUE) # {}
  /\ Answered(1, FALSE) # {}
  /\ \E row \in database.vocabulary :
       row.id = 1 /\ row.correct_attempts = 1 /\ row.wrong_attempts = 1

\* C30: after PUT /vocabulary/:id with a list of synonyms has saved it by
\* saveSynonymsForVocabulary, the stored synonyms of the entry are the
\* trimmed non-blank strings of the list, each once, for every list, the
\* empty list and the lists of blank strings included.
C30_SynonymsReplaced ==
  (/\ call = "PUT /vocabulary/:id"
   /\ ret.status = 200
   /\ ret.updates.synonyms # Undefined) =>
    storedSynonyms(database.synonyms, ret.id)
      = uniqueSynonyms(ret.updates.synonyms[1])

====
